---- MODULE Spec2Model ----
(***************************************************************************)
(* web-content-llm: content extraction (extractSections and its helpers),  *)
(* the three renderers (generateMarkdown, generatePlainText, generateHTML) *)
(* and the export pipeline (exportContent), modelled from src/index.js.    *)
(*                                                                         *)
(* Strings are sequences of tokens.  A character of user text is a token   *)
(* of one character; a literal piece of a template in the source (such as  *)
(* "<h1>" or "**Source:** ") is kept as one token.  The string a sequence  *)
(* stands for is the concatenation of its tokens.  A white space character *)
(* with no escape in these strings is the token of its code point, such as *)
(* "U+00A0" for the no-break space.                                        *)
(*                                                                         *)
(* A document is the parsed tree in document (pre-order) order: a sequence *)
(* of element records, each with its depth below the root.  Node 1 is the  *)
(* body element (depth 0) that cheerio.load always creates.  The text field*)
(* of an element is its leading text node, so the text() of an element is  *)
(* the concatenation of the text fields of its subtree in document order.  *)
(***************************************************************************)
EXTENDS Integers, Sequences, FiniteSets, TLC

VARIABLES
  doc,        \* the parsed tree handed to extractSections ($)
  pc,         \* position of the running operation
  scope,      \* mainContent: index of the selected scope element (0: none yet)
  elems,      \* mainContent.find('*'): the indices still to be visited by .each
  sections,   \* the sections array of extractSections
  seen,       \* the seen Set of extractSections
  content,    \* the ContentDocument handed to a renderer
  options,    \* the options object handed to a renderer / exportContent
  outputPath, \* extension of the outputPath argument of exportContent
  markdown,   \* result of generateMarkdown
  plain,      \* result of generatePlainText
  html,       \* result of generateHTML
  writes,     \* calls of writeTextFile made so far (format written)
  pdfCalls,   \* calls of createPDFFromHTML made so far (page format passed)
  error,      \* the error the operation threw ("" when none)
  now,        \* the wall clock (new Date()), in days
  stages,     \* the stages of the pipeline started so far, in order
  docB,       \* a second call of extractSections: its tree,
  pcB,        \*   its position,
  elemsB,     \*   the elements it has still to visit,
  sectionsB,  \*   its sections array
  seenB,      \*   and its seen Set
  browser     \* the browser of createPDFFromHTML: "none", "open" or "closed"

vars == <<doc, pc, scope, elems, sections, seen, content, options, outputPath,
          markdown, plain, html, writes, pdfCalls, error, now, stages,
          docB, pcB, elemsB, sectionsB, seenB, browser>>

\* the state of the second call
callB == <<docB, pcB, elemsB, sectionsB, seenB>>

\* the null an extractor returns when an element yields no section
Null == [type |-> "null"]

----------------------------------------------------------------------------
(* Bounds of the model                                                     *)

\* the most elements a tree has below its body
MaxNodes == 4

\* the most sections a ContentDocument handed to a renderer has
MaxSections == 2

\* the last day of the wall clock (day 0 is the day the call starts)
MaxDay == 2

\* the most elements below the body of a page that is fetched and exported
MaxPageNodes == 3

----------------------------------------------------------------------------
(* Strings                                                                 *)

\* the characters String.prototype.trim removes: the WhiteSpace and the
\* LineTerminator code points.  Those a string of this module cannot hold as
\* one character are written as their code point
Whitespace ==
  {" ", "\n", "\t", "\r", "\f", "U+000B", "U+00A0", "U+FEFF", "U+1680",
   "U+2000", "U+2001", "U+2002", "U+2003", "U+2004", "U+2005", "U+2006",
   "U+2007", "U+2008", "U+2009", "U+200A", "U+2028", "U+2029", "U+202F",
   "U+205F", "U+3000"}

RECURSIVE trimStart(_)
trimStart(s) ==
  IF s # <<>> /\ Head(s) \in Whitespace THEN trimStart(Tail(s)) ELSE s

RECURSIVE trimEnd(_)
trimEnd(s) ==
  IF s # <<>> /\ s[Len(s)] \in Whitespace
  THEN trimEnd(SubSeq(s, 1, Len(s) - 1))
  ELSE s

\* String.prototype.trim
trim(s) == trimEnd(trimStart(s))

RECURSIVE Concat(_)
\* concatenation of a sequence of strings
Concat(ss) == IF ss = <<>> THEN <<>> ELSE Head(ss) \o Concat(Tail(ss))

RECURSIVE join(_, _)
\* Array.prototype.join(sep)
join(ss, sep) ==
  IF ss = <<>> THEN <<>>
  ELSE IF Len(ss) = 1 THEN ss[1]
  ELSE ss[1] \o sep \o join(Tail(ss), sep)

Range(s) == {s[i] : i \in 1..Len(s)}

----------------------------------------------------------------------------
(* The parsed tree                                                         *)

\* index of the last node of the subtree rooted at node i
RECURSIVE SubtreeEnd(_, _, _)
SubtreeEnd(d, i, j) ==
  IF j < Len(d) /\ d[j + 1].depth > d[i].depth
  THEN SubtreeEnd(d, i, j + 1)
  ELSE j

\* the descendants of node i, in document order: $el.find('*')
Descendants(d, i) ==
  [k \in 1..(SubtreeEnd(d, i, i) - i) |-> i + k]

\* the proper ancestors of node i
Ancestors(d, i) ==
  {j \in 1..(i - 1) : SubtreeEnd(d, j, j) >= i}

\* $el.parents(selector).length > 0 for a selector that lists tag names
HasParent(d, i, tags) == \E j \in Ancestors(d, i) : d[j].tag \in tags

\* the parent of node i (0 for the root)
Parent(d, i) ==
  IF Ancestors(d, i) = {} THEN 0
  ELSE CHOOSE j \in Ancestors(d, i) : \A k \in Ancestors(d, i) : k <= j

\* the direct children of node i, in document order
Children(d, i) ==
  SelectSeq(Descendants(d, i), LAMBDA k : d[k].depth = d[i].depth + 1)

\* $el.text(): the text nodes of the subtree, concatenated in document order
RECURSIVE TextFrom(_, _, _)
TextFrom(d, j, last) ==
  IF j > last THEN <<>> ELSE d[j].text \o TextFrom(d, j + 1, last)

text(d, i) == TextFrom(d, i, SubtreeEnd(d, i, i))

----------------------------------------------------------------------------
(* Content extraction functions                                            *)

\* default value of the minLength parameter of isValidText
minLength == 3

\* isValidText with the comparison off by one
isValidText_Exclusive(t) == t # <<>> /\ Len(trim(t)) > minLength

isValidText(t) == t # <<>> /\ Len(trim(t)) >= minLength

extractHeading(d, i, tagName) ==
  LET c == trim(text(d, i))
  IN  IF c # <<>> THEN [type |-> tagName, content |-> c] ELSE Null

extractParagraph(d, i) ==
  LET c == trim(text(d, i))
  IN  IF isValidText(c) THEN [type |-> "paragraph", content |-> c] ELSE Null

extractList(d, i, type) ==
  LET lis   == SelectSeq(Children(d, i), LAMBDA k : d[k].tag = "li")
      texts == [n \in 1..Len(lis) |-> trim(text(d, lis[n]))]
      items == SelectSeq(texts, LAMBDA t : t # <<>>)
  IN  IF Len(items) > 0 THEN [type |-> type, items |-> items] ELSE Null

extractQuote(d, i) ==
  LET c == trim(text(d, i))
  IN  IF c # <<>> THEN [type |-> "quote", content |-> c] ELSE Null

HeadingTags == {"h1", "h2", "h3", "h4", "h5", "h6"}

\* the object Object() returns: a section with no type, content or items
EmptyObject == [type |-> "undefined"]

\* extractors[tagName]?.() || null.  extractors is an object literal, so the
\* lookup of "constructor" finds Object, and Object() returns an empty object
extractSectionByType(d, i, tagName) ==
  IF tagName \in HeadingTags THEN extractHeading(d, i, tagName)
  ELSE IF tagName = "p" THEN extractParagraph(d, i)
  ELSE IF tagName = "ul" THEN extractList(d, i, "bullet-list")
  ELSE IF tagName = "ol" THEN extractList(d, i, "numbered-list")
  ELSE IF tagName = "blockquote" THEN extractQuote(d, i)
  ELSE IF tagName = "constructor" THEN EmptyObject
  ELSE Null

\* an element matches 'main, .main-content, #main, article, [role="main"], body'
MatchesContentSelector(n) ==
  \/ n.tag = "main"
  \/ n.cls = "main-content"
  \/ n.id = "main"
  \/ n.tag = "article"
  \/ n.role = "main"
  \/ n.tag = "body"

\* $(selector).first(): a selector list yields its matches in document order,
\* whichever alternative of the list an element matches; first() takes the
\* first of them (0 when nothing matches)
mainContent(d) ==
  LET m == {i \in 1..Len(d) : MatchesContentSelector(d[i])}
  IN  IF m = {} THEN 0 ELSE CHOOSE i \in m : \A j \in m : i <= j

\* section.type + ':' + (section.content || section.items?.join(',') || '')
SectionKey(s) ==
  <<s.type, ":">> \o (IF "content" \in DOMAIN s THEN s.content
                      ELSE IF "items" \in DOMAIN s THEN join(s.items, <<",">>)
                      ELSE <<>>)

\* the tags whose descendants the traversal skips
SkipInside == {"ul", "ol", "table"}

\* the callback without the check of the seen set
Visit_NoDedup(d, i, secs, sn) ==
  IF HasParent(d, i, SkipInside) THEN <<secs, sn>>
  ELSE LET section == extractSectionByType(d, i, d[i].tag)
       IN  IF section # Null
           THEN <<Append(secs, section), sn \cup {SectionKey(section)}>>
           ELSE <<secs, sn>>

\* the callback keeping the last occurrence of a section instead of the first
Visit_KeepLast(d, i, secs, sn) ==
  IF HasParent(d, i, SkipInside) THEN <<secs, sn>>
  ELSE LET section == extractSectionByType(d, i, d[i].tag)
       IN  IF section # Null
           THEN <<Append(SelectSeq(secs, LAMBDA x : x # section), section),
                  sn \cup {SectionKey(section)}>>
           ELSE <<secs, sn>>

\* the callback without seen.add(key)
Visit_ForgetKey(d, i, secs, sn) ==
  IF HasParent(d, i, SkipInside) THEN <<secs, sn>>
  ELSE LET section == extractSectionByType(d, i, d[i].tag)
       IN  IF section # Null /\ SectionKey(section) \notin sn
           THEN <<Append(secs, section), sn>>
           ELSE <<secs, sn>>

\* one call of the .each callback on element i: the new <<sections, seen>>
Visit(d, i, secs, sn) ==
  IF HasParent(d, i, SkipInside) THEN <<secs, sn>>
  ELSE LET section == extractSectionByType(d, i, d[i].tag)
       IN  IF section # Null /\ SectionKey(section) \notin sn
           THEN <<Append(secs, section), sn \cup {SectionKey(section)}>>
           ELSE <<secs, sn>>

\* extractSections as a whole: the traversal folded over the elements
RECURSIVE Traverse(_, _, _, _)
Traverse(d, es, secs, sn) ==
  IF es = <<>> THEN secs
  ELSE LET r == Visit(d, Head(es), secs, sn)
       IN  Traverse(d, Tail(es), r[1], r[2])

extractSections(d) ==
  IF mainContent(d) = 0 THEN <<>>
  ELSE Traverse(d, Descendants(d, mainContent(d)), <<>>, {})

\* the first h1 of the whole document, else the title elements, else ''
extractTitle(d) ==
  LET h1s    == {i \in 1..Len(d) : d[i].tag = "h1"}
      first  == CHOOSE i \in h1s : \A j \in h1s : i <= j
      h1Text == IF h1s = {} THEN <<>> ELSE trim(text(d, first))
      titles == SelectSeq([i \in 1..Len(d) |-> i], LAMBDA i : d[i].tag = "title")
      tText  == trim(Concat([n \in 1..Len(titles) |-> text(d, titles[n])]))
  IN  IF h1Text # <<>> THEN h1Text ELSE tText

\* new Date().toISOString() at day t of the clock
toISOString(t) == "2025-01-" \o ToString(15 + t) \o "T12:00:00.000Z"

extractMetadata(d, url, t) ==
  LET metas == {i \in 1..Len(d) : d[i].tag = "meta" /\ d[i].name = "description"}
      first == CHOOSE i \in metas : \A j \in metas : i <= j
  IN  [description |-> IF metas = {} THEN <<>> ELSE d[first].value,
       url         |-> url,
       scrapedAt   |-> toISOString(t)]

\* an element one of the selectors of removeUnwantedElements matches
Unwanted(n) ==
  \/ n.tag \in {"script", "style", "noscript", "iframe", "svg"}
  \/ n.tag \in {"header", "footer", "nav"}
  \/ n.cls \in {"cookie-banner", "announcement-bar"}
  \/ n.tag \in {"nav", "menu"}
  \/ n.cls \in {"navigation", "menu", "nav"}
  \/ n.tag = "button" \/ n.cls = "button" \/ n.role = "button"
  \/ n.tag = "form"
  \/ (n.tag = "input" /\ n.type \in {"checkbox", "radio", "hidden"})
  \/ n.tag \in {"select", "textarea"}
  \/ n.cls \in {"header", "footer", "sidebar"}

\* $(selector).remove() for each selector: every matching element goes,
\* with its subtree
removeUnwantedElements(d) ==
  LET gone(i) == Unwanted(d[i]) \/ \E j \in Ancestors(d, i) : Unwanted(d[j])
      kept    == SelectSeq([i \in 1..Len(d) |-> i], LAMBDA i : ~gone(i))
  IN  [n \in 1..Len(kept) |-> d[kept[n]]]

----------------------------------------------------------------------------
(* Pure utility functions                                                  *)

\* the value of an option the caller did not pass
Undefined == <<"undefined">>

\* a string that is neither undefined nor empty
Truthy(t) == t # Undefined /\ t # <<>>

escapeChar_NoApostrophe(c) ==
  IF c = "&" THEN <<"&", "a", "m", "p", ";">>
  ELSE IF c = "<" THEN <<"&", "l", "t", ";">>
  ELSE IF c = ">" THEN <<"&", "g", "t", ";">>
  ELSE IF c = "\"" THEN <<"&", "q", "u", "o", "t", ";">>
  ELSE <<c>>

\* the map of escapeHtml
escapeChar(c) ==
  IF c = "&" THEN <<"&", "a", "m", "p", ";">>
  ELSE IF c = "<" THEN <<"&", "l", "t", ";">>
  ELSE IF c = ">" THEN <<"&", "g", "t", ";">>
  ELSE IF c = "\"" THEN <<"&", "q", "u", "o", "t", ";">>
  ELSE IF c = "'" THEN <<"&", "#", "0", "3", "9", ";">>
  ELSE <<c>>

\* escapeHtml with the apostrophe missing from its map
escapeHtml_NoApostrophe(t) ==
  Concat([i \in 1..Len(t) |-> escapeChar_NoApostrophe(t[i])])

\* text.replace(/[&<>"']/g, (m) => map[m])
escapeHtml(t) == Concat([i \in 1..Len(t) |-> escapeChar(t[i])])

\* date.toLocaleDateString('de-DE', {year, month: 'long', day}) at day t
formatDate(t) == <<ToString(15 + t) \o ". Januar 2025">>

\* String.prototype.repeat
repeat(c, n) == [i \in 1..n |-> c]

----------------------------------------------------------------------------
(* Renderers                                                               *)
(* A lookup renderers[section.type] in one of the object literals finds    *)
(* the renderer of an own key; for a name every object inherits it finds   *)
(* the member of Object.prototype and calls it on the section; for any     *)
(* other name it finds nothing and the section renders to ''.              *)

ObjectString == <<"[object Object]">>

\* the section object itself, and the renderers object, as a rendering
SectionItself == <<"[the section object]">>
RenderersItself == <<"[the renderers object]">>

\* what a renderer returns in place of a string when the call throws:
\* renderers['__proto__'] is an object, not a function
TypeError == <<"TypeError: renderers[section.type] is not a function">>

\* __defineGetter__ and __defineSetter__ called with one argument
AccessorError(name) ==
  <<"TypeError: Object.prototype." \o name \o ": Expecting function">>

\* the errors a lookup of the table can throw
ThrownErrors ==
  {TypeError, AccessorError("__defineGetter__"), AccessorError("__defineSetter__")}

\* renderers[type]?.(section) || '' for a type that is no own key: toString
\* and toLocaleString return "[object Object]", constructor (Object) returns
\* its argument, the section, valueOf returns the renderers object;
\* hasOwnProperty, isPrototypeOf, propertyIsEnumerable, __lookupGetter__ and
\* __lookupSetter__ return false or undefined, which || '' turns into ''
Inherited(type) ==
  IF type \in {"toString", "toLocaleString"} THEN ObjectString
  ELSE IF type = "constructor" THEN SectionItself
  ELSE IF type = "valueOf" THEN RenderersItself
  ELSE IF type = "__proto__" THEN TypeError
  ELSE IF type \in {"__defineGetter__", "__defineSetter__"} THEN AccessorError(type)
  ELSE <<>>

\* the string Array.prototype.join makes of an element
StringOf(v) == IF v \in {SectionItself, RenderersItself} THEN ObjectString ELSE v

HtmlItems(items) ==
  Concat([n \in 1..Len(items) |-> <<"<li>">> \o escapeHtml(items[n]) \o <<"</li>">>])

renderSection(s) ==
  IF s.type \in {"h1", "h2", "h3", "h4"}
    THEN <<"<" \o s.type \o ">">> \o escapeHtml(s.content) \o <<"</" \o s.type \o ">">>
  ELSE IF s.type = "paragraph"
    THEN <<"<p>">> \o escapeHtml(s.content) \o <<"</p>">>
  ELSE IF s.type = "bullet-list"
    THEN <<"<ul>">> \o HtmlItems(s.items) \o <<"</ul>">>
  ELSE IF s.type = "numbered-list"
    THEN <<"<ol>">> \o HtmlItems(s.items) \o <<"</ol>">>
  ELSE IF s.type = "quote"
    THEN <<"<blockquote>">> \o escapeHtml(s.content) \o <<"</blockquote>">>
  ELSE Inherited(s.type)

\* sections.map(renderSection).join('\n')
renderSections(secs) ==
  join([n \in 1..Len(secs) |-> StringOf(renderSection(secs[n]))], <<"\n">>)

renderHeader(c, t) ==
  <<"\n  <div class=\"header\">\n    <h1>">> \o escapeHtml(c.title)
  \o <<"</h1>\n    <div class=\"metadata\">\n      <p>Quelle: ">>
  \o escapeHtml(c.metadata.url)
  \o <<"</p>\n      <p>Generiert am: ">> \o formatDate(t)
  \o <<"</p>\n    </div>\n  </div>\n">>

FooterOpen == "\n  <div class=\"footer\">\n    <p>"

\* renderFooter = (footerText = '') => ...
renderFooter(footerText) ==
  <<FooterOpen>>
  \o escapeHtml(IF footerText = Undefined THEN <<>> ELSE footerText)
  \o <<"</p>\n  </div>\n">>

\* the style sheet, lines 180-250, as one piece
getStyles == <<"getStyles()">>

generateHTML(c, o, t) ==
  <<"\n  <!DOCTYPE html>\n  <html lang=\"de\">\n  <head>\n    <meta charset=\"UTF-8\">\n    <title>">>
  \o escapeHtml(c.title)
  \o <<"</title>\n    <style>">> \o getStyles
  \o <<"</style>\n  </head>\n  <body>\n    ">>
  \o renderHeader(c, t) \o <<"\n    ">>
  \o renderSections(c.sections) \o <<"\n    ">>
  \o renderFooter(o.footerText)
  \o <<"\n  </body>\n  </html>\n">>

\* items.map((item, i) => `${i + 1}. ${item}`).join('\n')
NumberedItems(items) ==
  join([n \in 1..Len(items) |-> <<ToString(n), ". ">> \o items[n]], <<"\n">>)

PrefixedItems(items, prefix) ==
  join([n \in 1..Len(items) |-> <<prefix>> \o items[n]], <<"\n">>)

\* the '#' characters of a markdown heading of the given tag
Hashes(tag) ==
  IF tag = "h1" THEN "# " ELSE IF tag = "h2" THEN "## "
  ELSE IF tag = "h3" THEN "### " ELSE IF tag = "h4" THEN "#### "
  ELSE IF tag = "h5" THEN "##### " ELSE "###### "

renderSectionAsMarkdown(s) ==
  IF s.type \in HeadingTags THEN <<Hashes(s.type)>> \o s.content \o <<"\n">>
  ELSE IF s.type = "paragraph" THEN s.content \o <<"\n">>
  ELSE IF s.type = "bullet-list" THEN PrefixedItems(s.items, "- ") \o <<"\n">>
  ELSE IF s.type = "numbered-list" THEN NumberedItems(s.items) \o <<"\n">>
  ELSE IF s.type = "quote" THEN <<"> ">> \o s.content \o <<"\n">>
  ELSE Inherited(s.type)

MarkdownRule == "\n---\n\n"

generateMarkdown(c, o, t) ==
  <<"# ">> \o c.title \o <<"\n\n">>
  \o <<"**Source:** ">> \o c.metadata.url \o <<"\n">>
  \o <<"**Generated:** ">> \o formatDate(t) \o <<"\n\n">>
  \o join([n \in 1..Len(c.sections) |->
             StringOf(renderSectionAsMarkdown(c.sections[n]))], <<"\n">>)
  \o (IF Truthy(o.footerText)
      THEN <<MarkdownRule>> \o o.footerText \o <<"\n">>
      ELSE <<>>)

\* the bullet glyph, U+2022, and the box drawing glyph of the rule, U+2500
Bullet == "U+2022 "
RuleGlyph == "U+2500"

\* the length of the rule above the footer of the plain text
RuleLength == 50

renderSectionAsPlainText(s) ==
  IF s.type = "h1"
    THEN s.content \o <<"\n">> \o repeat("=", Len(s.content)) \o <<"\n">>
  ELSE IF s.type = "h2"
    THEN s.content \o <<"\n">> \o repeat("-", Len(s.content)) \o <<"\n">>
  ELSE IF s.type \in {"h3", "h4", "h5", "h6", "paragraph"}
    THEN s.content \o <<"\n">>
  ELSE IF s.type = "bullet-list" THEN PrefixedItems(s.items, Bullet) \o <<"\n">>
  ELSE IF s.type = "numbered-list" THEN NumberedItems(s.items) \o <<"\n">>
  ELSE IF s.type = "quote" THEN <<"  \"">> \o s.content \o <<"\"\n">>
  ELSE Inherited(s.type)

generatePlainText(c, o, t) ==
  c.title \o <<"\n">> \o repeat("=", Len(c.title)) \o <<"\n\n">>
  \o <<"Source: ">> \o c.metadata.url \o <<"\n">>
  \o <<"Generated: ">> \o formatDate(t) \o <<"\n\n">>
  \o join([n \in 1..Len(c.sections) |->
             StringOf(renderSectionAsPlainText(c.sections[n]))], <<"\n">>)
  \o (IF Truthy(o.footerText)
      THEN <<"\n">> \o repeat(RuleGlyph, RuleLength) \o <<"\n\n">>
           \o o.footerText \o <<"\n">>
      ELSE <<>>)

\* a renderer call on these sections throws: some lookup is not callable
Throws(secs) == \E n \in 1..Len(secs) : Inherited(secs[n].type) \in ThrownErrors

\* the error of the first section whose lookup throws
Thrown(secs) ==
  LET n == CHOOSE k \in 1..Len(secs) :
             /\ Inherited(secs[k].type) \in ThrownErrors
             /\ \A j \in 1..(k - 1) : Inherited(secs[j].type) \notin ThrownErrors
  IN  Inherited(secs[n].type)[1]


----------------------------------------------------------------------------
(* The trees the extraction is run on                                      *)

\* an element with its leading text and the attributes the selectors of the
\* source read: class, id, role, type (of an input), name and content (of a
\* meta element)
Elem(tag, txt) ==
  [tag |-> tag, text |-> txt, cls |-> "", id |-> "", role |-> "",
   type |-> "", name |-> "", value |-> <<>>]

Node(k, depth) ==
  [tag |-> k.tag, depth |-> depth, text |-> k.text,
   cls |-> k.cls, id |-> k.id, role |-> k.role,
   type |-> k.type, name |-> k.name, value |-> k.value]

\* the body element cheerio.load creates around the content
Body == Node(Elem("body", <<>>), 0)

\* form controls: phrasing content, with no element of the model inside
Controls == {"select", "textarea", "input"}

\* the start tags that close an open paragraph
ClosesParagraph ==
  HeadingTags \cup
    {"p", "div", "blockquote", "ul", "ol", "li", "main", "article", "nav", "form"}

\* The trees are built as the parser builds them: one start tag at a time,
\* each state holding the tree so far and the stack of open elements (their
\* places in the tree, the body first). An end tag pops the stack; which end
\* tags came before a start tag is the choice of how much of the stack is
\* kept. A start tag for which the parser would itself close an element
\* gives the tree that the end tag of that element and the start tag give,
\* so only the start tags that close nothing are drawn. The tbody and tr the
\* parser puts around a cell are left out of the tree. The page has no
\* doctype, so a table does not close an open paragraph. Trees that only a
\* misnested </form> produces (a form in an element its form left open) are
\* not drawn.

\* the parser state before any start tag: the body, open
Parsing == [doc |-> <<Body>>, open |-> <<1>>]

\* the state with only the first keep open elements still open
Pop(s, keep) == [s EXCEPT !.open = SubSeq(s.open, 1, keep)]

\* the tag of the e-th open element, and the current node
OpenTag(s, e) == s.doc[s.open[e]].tag
CurrentNode(s) == s.doc[s.open[Len(s.open)]]

\* the innermost open table or cell (0 when there is none): what ends the
\* scope in which an open p or form is looked for
ScopeBoundary(s) ==
  LET B == {e \in 1..Len(s.open) : OpenTag(s, e) \in {"table", "td"}}
  IN  IF B = {} THEN 0 ELSE CHOOSE e \in B : \A f \in B : f <= e

\* the insertion mode is "in table": the innermost of them is a table
InTable(s) == ScopeBoundary(s) > 0 /\ OpenTag(s, ScopeBoundary(s)) = "table"

\* "has a p element in button scope"
ParagraphInScope(s) ==
  \E e \in (ScopeBoundary(s) + 1)..Len(s.open) : OpenTag(s, e) = "p"

\* an open list item the start tag li reaches: the walk up the stack passes
\* div, p and elements that are not special, and stops at any other
ListItemInReach(s) ==
  \E e \in 1..Len(s.open) :
    /\ OpenTag(s, e) = "li"
    /\ \A f \in (e + 1)..Len(s.open) : OpenTag(s, f) \in {"div", "p", "constructor"}

\* the form element pointer is set
FormOpen(s) == \E e \in 1..Len(s.open) : OpenTag(s, e) = "form"

\* what a table takes as a child: its cells, a form and a hidden input
TableChild(k) ==
  k.tag \in {"td", "form"} \/ (k.tag = "input" /\ k.type = "hidden")

\* the parser inserts an element for the start tag and closes nothing for
\* it: no second body; nothing inside a title or a control; a cell only in
\* a table; no table while the mode is "in table" (the open table is closed
\* first), and nothing in a form inserted in that mode (it is popped at
\* once); no element that closes a paragraph while one is in scope (a form
\* in the mode "in table" closes none: it is inserted in the current node
\* and popped); no heading in a heading that is the current node; no list
\* item while one is in reach; no form while one is open
Insertable(s, k) ==
  /\ k.tag # "body"
  /\ CurrentNode(s).tag \notin Controls \cup {"title"}
  /\ k.tag = "td" => CurrentNode(s).tag = "table"
  /\ k.tag = "table" => ~InTable(s)
  /\ ~(CurrentNode(s).tag = "form" /\ InTable(s))
  /\ (k.tag \in ClosesParagraph /\ ~(k.tag = "form" /\ InTable(s)))
       => ~ParagraphInScope(s)
  /\ k.tag \in HeadingTags => CurrentNode(s).tag \notin HeadingTags
  /\ k.tag = "li" => ~ListItemInReach(s)
  /\ k.tag = "form" => ~FormOpen(s)

\* foster parenting: in the mode "in table" an element that is no child of
\* the table goes in front of the table, into the table's parent when the
\* table is the current node and into the current node otherwise
Fostered(s, k) ==
  InTable(s) /\ ~(CurrentNode(s).tag = "table" /\ TableChild(k))

\* the state after the start tag of k: the element is the last child of the
\* current node, which puts it at the end of the tree, or it is fostered in
\* front of the open table; it is then the current node
Insert(s, k) ==
  IF Fostered(s, k)
    THEN LET T     == s.open[ScopeBoundary(s)]
             depth == IF CurrentNode(s).tag = "table" THEN s.doc[T].depth
                      ELSE CurrentNode(s).depth + 1
         IN  [doc  |-> SubSeq(s.doc, 1, T - 1) \o <<Node(k, depth)>>
                         \o SubSeq(s.doc, T, Len(s.doc)),
              open |-> [e \in 1..(Len(s.open) + 1) |->
                          IF e > Len(s.open) THEN T
                          ELSE IF s.open[e] >= T THEN s.open[e] + 1
                          ELSE s.open[e]]]
    ELSE [doc  |-> Append(s.doc, Node(k, CurrentNode(s).depth + 1)),
          open |-> Append(s.open, Len(s.doc) + 1)]

\* the states one more start tag leads to, after any number of end tags
\* (ss are states of fewer than n elements, so of at most n open elements)
Extend(ss, kinds, n) ==
  {Insert(Pop(t[1], t[3]), t[2]) :
     t \in {u \in ss \X kinds \X (1..n) :
              /\ u[3] <= Len(u[1].open)
              /\ Insertable(Pop(u[1], u[3]), u[2])}}

RECURSIVE ParseStates(_, _)
\* the parser states after at most n start tags of elements drawn from kinds
ParseStates(kinds, n) ==
  IF n = 0 THEN {Parsing}
  ELSE LET smaller == ParseStates(kinds, n - 1)
       IN  smaller \cup Extend(smaller, kinds, n)

\* every tree of a body and at most n elements drawn from kinds
DocsUpTo(kinds, n) == {s.doc : s \in ParseStates(kinds, n)}

abc == <<"a", "b", "c">>

\* the elements of the trees of Spec: a heading, paragraphs below the
\* minimum length and at it with surrounding whitespace, a quote (whose text
\* is that of the elements inside it), a list and its items, a table and its
\* cells (whose text no other element carries)
ExtractKinds ==
  {Elem("h2", abc),
   Elem("p", <<"U+00A0", "a", "b">>),
   Elem("p", <<"\r">> \o abc \o <<"\n">>),
   Elem("blockquote", <<>>),
   Elem("ul", <<>>), Elem("li", abc),
   Elem("table", <<>>), Elem("td", <<"x", "y", "z">>)}

\* the elements of the trees of SpecScope: every kind of main content
\* landmark of the selector, and two paragraphs to tell inside from outside
ScopeKinds ==
  {Elem("main", <<>>), Elem("article", <<>>),
   [Elem("div", <<>>) EXCEPT !.cls = "main-content"],
   [Elem("div", <<>>) EXCEPT !.id = "main"],
   [Elem("div", <<>>) EXCEPT !.role = "main"],
   Elem("p", abc), Elem("p", <<"x", "y", "z">>)}

----------------------------------------------------------------------------
(* extractSections, one .each callback at a time                           *)

\* no second call is running
IdleB ==
  /\ docB = <<Body>> /\ pcB = "idle"
  /\ elemsB = <<>> /\ sectionsB = <<>> /\ seenB = {}
  /\ browser = "none"

Idle ==
  /\ content = Null /\ options = Null /\ outputPath = ""
  /\ markdown = <<>> /\ plain = <<>> /\ html = <<>>
  /\ writes = <<>> /\ pdfCalls = <<>> /\ error = "" /\ now = 0
  /\ stages = <<>>

InitExtract(docs) ==
  /\ doc \in docs
  /\ pc = "ready"
  /\ scope = 0 /\ elems = <<>> /\ sections = <<>> /\ seen = {}
  /\ Idle /\ IdleB

\* const mainContent = ...first(); const sections = []; const seen = new Set()
ExtractStart ==
  /\ pc = "ready"
  /\ scope' = mainContent(doc)
  /\ elems' = IF mainContent(doc) = 0 THEN <<>>
              ELSE Descendants(doc, mainContent(doc))
  /\ sections' = <<>>
  /\ seen' = {}
  /\ pc' = "each"
  /\ UNCHANGED <<doc, content, options, outputPath, markdown, plain, html,
                 writes, pdfCalls, error, now, stages, callB, browser>>

\* the callback of mainContent.find('*').each on the next element
ExtractEach ==
  /\ pc = "each" /\ elems # <<>>
  /\ LET r == Visit(doc, Head(elems), sections, seen)
     IN  sections' = r[1] /\ seen' = r[2]
  /\ elems' = Tail(elems)
  /\ UNCHANGED <<doc, pc, scope, content, options, outputPath, markdown,
                 plain, html, writes, pdfCalls, error, now,
                 stages, callB, browser>>

\* return sections
ExtractReturn ==
  /\ pc = "each" /\ elems = <<>>
  /\ pc' = "returned"
  /\ UNCHANGED <<doc, scope, elems, sections, seen, content, options,
                 outputPath, markdown, plain, html, writes, pdfCalls, error,
                 now, stages, callB, browser>>

Init == InitExtract(DocsUpTo(ExtractKinds, MaxNodes))

Next == ExtractStart \/ ExtractEach \/ ExtractReturn

Spec == Init /\ [][Next]_vars

\* the same operation on trees with main content landmarks
InitScope == InitExtract(DocsUpTo(ScopeKinds, MaxNodes))

SpecScope == InitScope /\ [][Next]_vars

----------------------------------------------------------------------------
(* Properties of extractSections                                           *)

\* the elements of the selected scope
InScope == IF scope = 0 THEN {}
           ELSE (scope + 1)..SubtreeEnd(doc, scope, scope)

\* the section type a heading, paragraph or quote element is extracted as
TypeOfTag(tag) ==
  IF tag = "p" THEN "paragraph" ELSE IF tag = "blockquote" THEN "quote" ELSE tag

TextTags == HeadingTags \cup {"p", "blockquote"}

Skipped(i) == HasParent(doc, i, {"ul", "ol", "table"})

\* the text of element i passes the filter of its type
PassesFilter(i) ==
  LET t == trim(text(doc, i))
  IN  IF doc[i].tag = "p" THEN Len(t) >= 3 ELSE Len(t) >= 1

\* the number of emitted sections of the given type and text
CountSections(type, txt) ==
  Cardinality({k \in 1..Len(sections) :
                 /\ sections[k].type = type
                 /\ "content" \in DOMAIN sections[k]
                 /\ sections[k].content = txt})

\* elements i and j repeat each other: same tag, identical trimmed text
Repeats(i, j) ==
  /\ i < j
  /\ doc[i].tag \in TextTags
  /\ doc[i].tag = doc[j].tag
  /\ trim(text(doc, i)) = trim(text(doc, j))

\* C1 as stated: whenever the scope holds two or more heading (same tag),
\* paragraph or quote elements with identical trimmed text, the returned
\* sequence holds exactly one section of that type and text.
C1_ExactlyOneSectionPerRepeat ==
  pc = "returned" =>
    \A i \in InScope : \A j \in InScope :
      Repeats(i, j) =>
        CountSections(TypeOfTag(doc[i].tag), trim(text(doc, i))) = 1

\* C1 as amended: for such repeated elements the returned sequence holds at
\* most one section of that type and text: exactly one when at least one of
\* the elements with that tag and text is extracted (it has no ul, ol or
\* table ancestor and its text passes the filter of its type), none otherwise.
C1_FirstOccurrenceOnly ==
  pc = "returned" =>
    \A i \in InScope : \A j \in InScope :
      Repeats(i, j) =>
        CountSections(TypeOfTag(doc[i].tag), trim(text(doc, i))) =
          IF \E k \in InScope :
               /\ doc[k].tag = doc[i].tag
               /\ trim(text(doc, k)) = trim(text(doc, i))
               /\ ~Skipped(k) /\ PassesFilter(k)
          THEN 1 ELSE 0

\* two extracted paragraphs whose text carries whitespace that trim removes,
\* apart from each other in the tree, gave one section
C1_Witness ==
  /\ pc = "returned"
  /\ \E i \in InScope : \E j \in InScope :
       /\ Repeats(i, j) /\ j > i + 1
       /\ doc[i].tag = "p" /\ text(doc, i) # trim(text(doc, i))
       /\ doc[i].depth # doc[j].depth
       /\ ~Skipped(i) /\ ~Skipped(j) /\ PassesFilter(i)
       /\ CountSections("paragraph", trim(text(doc, i))) = 1

\* the elements that produce section s: visited, not skipped, extracted as s
Producers(s) ==
  {i \in InScope : ~Skipped(i) /\ extractSectionByType(doc, i, doc[i].tag) = s}

First(S) == CHOOSE i \in S : \A j \in S : i <= j

\* C2: the emitted sections are in the document order of the first element
\* producing each: for sections A before B, the first producer of A
\* precedes the first producer of B, whatever duplicates follow.
C2_FirstOccurrenceOrder ==
  \A a \in 1..Len(sections) : \A b \in 1..Len(sections) :
    a < b =>
      /\ Producers(sections[a]) # {}
      /\ Producers(sections[b]) # {}
      /\ First(Producers(sections[a])) < First(Producers(sections[b]))

\* a duplicate of an earlier section follows the first producer of a later one
C2_Witness ==
  /\ pc = "returned"
  /\ \E a \in 1..Len(sections) : \E b \in 1..Len(sections) :
       /\ a < b
       /\ \E i \in Producers(sections[a]) : i > First(Producers(sections[b]))

ParagraphSection(txt) ==
  \E k \in 1..Len(sections) :
    /\ sections[k].type = "paragraph"
    /\ "content" \in DOMAIN sections[k]
    /\ sections[k].content = txt

\* C3 as stated: for every p element of the scope, a trimmed text shorter
\* than 3 characters is never a Paragraph section of the output, and a
\* trimmed text of 3 or more characters always is one in the returned output.
C3_MinimumLengthFilter ==
  \A i \in InScope :
    doc[i].tag = "p" =>
      /\ Len(trim(text(doc, i))) < 3 => ~ParagraphSection(trim(text(doc, i)))
      /\ (pc = "returned" /\ Len(trim(text(doc, i))) >= 3)
           => ParagraphSection(trim(text(doc, i)))

\* C3 as amended: the second half holds for the p elements that have no ul,
\* ol or table ancestor.
C3_MinimumLengthFilterOutsideLists ==
  \A i \in InScope :
    doc[i].tag = "p" =>
      /\ Len(trim(text(doc, i))) < 3 => ~ParagraphSection(trim(text(doc, i)))
      /\ (pc = "returned" /\ Len(trim(text(doc, i))) >= 3 /\ ~Skipped(i))
           => ParagraphSection(trim(text(doc, i)))

\* a tree with a paragraph below the minimum and one at the minimum, both
\* visited outside lists and tables
C3_Witness ==
  /\ pc = "returned"
  /\ \E i \in InScope : \E j \in InScope :
       /\ doc[i].tag = "p" /\ doc[j].tag = "p"
       /\ ~Skipped(i) /\ ~Skipped(j)
       /\ Len(trim(text(doc, i))) = 2
       /\ Len(trim(text(doc, j))) = 3
       /\ ParagraphSection(trim(text(doc, j)))

\* the landmark the claim selects: a main element, else a role="main"
\* element, else an article, else a main-content class or main id, else body
PriorityScope(d) ==
  LET firstOf(S) == CHOOSE i \in S : \A j \in S : i <= j
      mains    == {i \in 1..Len(d) : d[i].tag = "main"}
      roles    == {i \in 1..Len(d) : d[i].role = "main"}
      articles == {i \in 1..Len(d) : d[i].tag = "article"}
      named    == {i \in 1..Len(d) : d[i].cls = "main-content" \/ d[i].id = "main"}
  IN  IF mains # {} THEN firstOf(mains)
      ELSE IF roles # {} THEN firstOf(roles)
      ELSE IF articles # {} THEN firstOf(articles)
      ELSE IF named # {} THEN firstOf(named)
      ELSE 1

\* C4: the scope is chosen by priority (main, role="main", article,
\* main-content class or id, and body only when none of these exists), and
\* no element outside the chosen landmark produces a section.
C4_ScopeByPriority ==
  pc # "ready" =>
    /\ scope = PriorityScope(doc)
    /\ \A k \in 1..Len(sections) :
         \E i \in (PriorityScope(doc) + 1)..
                    SubtreeEnd(doc, PriorityScope(doc), PriorityScope(doc)) :
           extractSectionByType(doc, i, doc[i].tag) = sections[k]

\* the characters of the text of the table cells of the tree
TableChars ==
  UNION {Range(doc[i].text) :
           i \in {j \in 1..Len(doc) :
                    doc[j].tag = "table" \/ HasParent(doc, j, {"table"})}}

SectionChars(s) ==
  IF "content" \in DOMAIN s THEN Range(s.content)
  ELSE IF "items" \in DOMAIN s THEN UNION {Range(s.items[n]) : n \in 1..Len(s.items)}
  ELSE {}

\* C5: no element with a ul, ol or table ancestor produces a section of its
\* own (every emitted section comes from an element outside lists and
\* tables), and the content of a table never reaches the output.
C5_NothingFromInsideListsAndTables ==
  \A k \in 1..Len(sections) :
    /\ Producers(sections[k]) # {}
    /\ SectionChars(sections[k]) \cap TableChars = {}

\* the text of list item li without the text of the lists nested inside it
ItemTextWithoutNestedLists(d, li) ==
  Concat([n \in 1..(SubtreeEnd(d, li, li) - li + 1) |->
            LET j == li + n - 1
            IN  IF \E k \in Ancestors(d, j) \cup {j} :
                     k > li /\ d[k].tag \in {"ul", "ol"}
                THEN <<>> ELSE d[j].text])

\* the items the claim gives list element i: the trimmed, non-empty texts of
\* its direct li children, in order, nested lists not folded in
DirectItems(d, i) ==
  LET lis   == SelectSeq(Children(d, i), LAMBDA k : d[k].tag = "li")
      texts == [n \in 1..Len(lis) |-> trim(ItemTextWithoutNestedLists(d, lis[n]))]
  IN  SelectSeq(texts, LAMBDA t : t # <<>>)

\* C18: for every ul or ol element the traversal extracts, the List section
\* in the returned sequence has exactly the trimmed non-empty texts of its
\* direct li children as items, without the text of lists nested in them; a
\* list with no such item yields no section.
C18_DirectItemsOnly ==
  pc = "returned" =>
    \A i \in InScope :
      (doc[i].tag \in {"ul", "ol"} /\ ~Skipped(i)) =>
        LET type == IF doc[i].tag = "ul" THEN "bullet-list" ELSE "numbered-list"
        IN  IF DirectItems(doc, i) # <<>>
            THEN /\ extractList(doc, i, type) = [type |-> type, items |-> DirectItems(doc, i)]
                 /\ extractList(doc, i, type) \in Range(sections)
            ELSE extractList(doc, i, type) = Null

----------------------------------------------------------------------------
(* The renderers, each called on one ContentDocument                       *)

\* every sequence over S of length at most n
SeqsUpTo(S, n) == UNION {[1..k -> S] : k \in 0..n}

\* the section types the extractor emits
SectionTypes ==
  HeadingTags \cup {"paragraph", "bullet-list", "numbered-list", "quote"}

\* the sections handed to the renderers: a heading of each level, texts
\* with the characters escapeHtml maps (one of them an entity written out),
\* both kinds of list, and sections whose type is no variant
RenderSectionKinds ==
  {[type |-> h, content |-> abc] : h \in HeadingTags}
  \cup {[type |-> "paragraph", content |-> <<"<", "b", ">">>],
        [type |-> "paragraph", content |-> <<"&", "l", "t", ";">>],
        [type |-> "quote", content |-> <<"\"", "q", "\"">>],
        [type |-> "bullet-list", items |-> <<abc, <<"a", "&", "b">> >>],
        [type |-> "numbered-list", items |-> <<abc, <<"'">> >>],
        [type |-> "unknown", content |-> abc],
        [type |-> "toString", content |-> abc],
        [type |-> "toLocaleString", content |-> abc],
        [type |-> "constructor", content |-> abc],
        [type |-> "valueOf", content |-> abc],
        [type |-> "__proto__", content |-> abc],
        [type |-> "__defineGetter__", content |-> abc]}

Titles == {<<>>, <<"<", "T", ">">>}

Url == <<"u", "&", "v">>

Footers == {Undefined, <<>>, <<"A", "'", "s">>}

ContentDocs ==
  {[title    |-> t,
    metadata |-> [description |-> <<>>, url |-> Url, scrapedAt |-> toISOString(0)],
    sections |-> ss] :
     t \in Titles, ss \in SeqsUpTo(RenderSectionKinds, MaxSections)}

InitRender ==
  /\ doc = <<Body>> /\ scope = 0 /\ elems = <<>> /\ sections = <<>> /\ seen = {}
  /\ pc = "render"
  /\ content \in ContentDocs
  /\ options \in {[format |-> "", footerText |-> f] : f \in Footers}
  /\ outputPath = ""
  /\ markdown = <<>> /\ plain = <<>> /\ html = <<>>
  /\ writes = <<>> /\ pdfCalls = <<>> /\ error = "" /\ now = 0
  /\ stages = <<>> /\ IdleB

\* a call generateMarkdown(content, options)
GenerateMarkdown ==
  /\ pc = "render" /\ markdown = <<>>
  /\ IF Throws(content.sections)
     THEN error' = Thrown(content.sections) /\ UNCHANGED markdown
     ELSE markdown' = generateMarkdown(content, options, now) /\ UNCHANGED error
  /\ UNCHANGED <<doc, pc, scope, elems, sections, seen, content, options,
                 outputPath, plain, html, writes, pdfCalls, now,
                 stages, callB, browser>>

\* a call generatePlainText(content, options)
GeneratePlainText ==
  /\ pc = "render" /\ plain = <<>>
  /\ IF Throws(content.sections)
     THEN error' = Thrown(content.sections) /\ UNCHANGED plain
     ELSE plain' = generatePlainText(content, options, now) /\ UNCHANGED error
  /\ UNCHANGED <<doc, pc, scope, elems, sections, seen, content, options,
                 outputPath, markdown, html, writes, pdfCalls, now,
                 stages, callB, browser>>

\* a call generateHTML(content, options)
GenerateHTML ==
  /\ pc = "render" /\ html = <<>>
  /\ IF Throws(content.sections)
     THEN error' = Thrown(content.sections) /\ UNCHANGED html
     ELSE html' = generateHTML(content, options, now) /\ UNCHANGED error
  /\ UNCHANGED <<doc, pc, scope, elems, sections, seen, content, options,
                 outputPath, markdown, plain, writes, pdfCalls, now,
                 stages, callB, browser>>

NextRender == GenerateMarkdown \/ GeneratePlainText \/ GenerateHTML

SpecRender == InitRender /\ [][NextRender]_vars

----------------------------------------------------------------------------
(* Properties of the renderers                                             *)

Count(seq, tok) == Cardinality({i \in 1..Len(seq) : seq[i] = tok})

EndsWith(seq, suffix) ==
  /\ Len(seq) >= Len(suffix)
  /\ SubSeq(seq, Len(seq) - Len(suffix) + 1, Len(seq)) = suffix

StartsWith(seq, prefix) ==
  /\ Len(seq) >= Len(prefix)
  /\ SubSeq(seq, 1, Len(prefix)) = prefix

\* the opening tags a rendered section starts with in the styled document
HtmlOpeners ==
  {"<h1>", "<h2>", "<h3>", "<h4>", "<h5>", "<h6>", "<p>", "<ul>", "<ol>",
   "<blockquote>"}

\* C6: for a ContentDocument whose sections are Heading (levels 1 to 6),
\* Paragraph, List or Quote, each of the three renderers emits a non-empty
\* rendering for every section, so the three outputs represent the same
\* number of sections.
C6_FormatSymmetry ==
  (/\ markdown # <<>> /\ plain # <<>> /\ html # <<>>
   /\ \A n \in 1..Len(content.sections) : content.sections[n].type \in SectionTypes)
  =>
    /\ \A n \in 1..Len(content.sections) :
         /\ renderSectionAsMarkdown(content.sections[n]) # <<>>
         /\ renderSectionAsPlainText(content.sections[n]) # <<>>
         /\ renderSection(content.sections[n]) # <<>>
    /\ Cardinality({i \in 1..Len(html) : html[i] \in HtmlOpeners})
         = Len(content.sections)

\* C7: in all three renderers an empty or absent footerText gives no footer
\* separator or footer block, and a non-empty footerText gives the footer
\* exactly once, after the sections.
C7_FooterOnlyWhenGiven ==
  LET given == Truthy(options.footerText)
      once  == IF given THEN 1 ELSE 0
  IN  /\ markdown # <<>> =>
           /\ Count(markdown, MarkdownRule) = once
           /\ given => EndsWith(markdown,
                                <<MarkdownRule>> \o options.footerText \o <<"\n">>)
      /\ plain # <<>> =>
           /\ Count(plain, RuleGlyph) = once * RuleLength
           /\ given => EndsWith(plain, <<"\n\n">> \o options.footerText \o <<"\n">>)
      /\ html # <<>> =>
           /\ Count(html, FooterOpen) = once
           /\ given => EndsWith(html, renderFooter(options.footerText)
                                      \o <<"\n  </body>\n  </html>\n">>)

\* the characters of a rendering: its pieces of one character (the pieces
\* of the templates are longer, but for the line break joining the sections)
UserChars(out) == SelectSeq(out, LAMBDA tok : Len(tok) = 1 \/ tok \in Whitespace)

\* standard unescaping of the five entities, left to right
RECURSIVE Unescape(_)
Unescape(e) ==
  LET drop(n) == SubSeq(e, n + 1, Len(e))
  IN  IF e = <<>> THEN <<>>
      ELSE IF StartsWith(e, <<"&", "a", "m", "p", ";">>) THEN <<"&">> \o Unescape(drop(5))
      ELSE IF StartsWith(e, <<"&", "l", "t", ";">>) THEN <<"<">> \o Unescape(drop(4))
      ELSE IF StartsWith(e, <<"&", "g", "t", ";">>) THEN <<">">> \o Unescape(drop(4))
      ELSE IF StartsWith(e, <<"&", "q", "u", "o", "t", ";">>) THEN <<"\"">> \o Unescape(drop(6))
      ELSE IF StartsWith(e, <<"&", "#", "0", "3", "9", ";">>) THEN <<"'">> \o Unescape(drop(6))
      ELSE <<Head(e)>> \o Unescape(Tail(e))

\* an entity starts at position i
EntityAt(out, i) ==
  \E ent \in {<<"&", "a", "m", "p", ";">>, <<"&", "l", "t", ";">>,
              <<"&", "g", "t", ";">>, <<"&", "q", "u", "o", "t", ";">>,
              <<"&", "#", "0", "3", "9", ";">>} :
    /\ i + Len(ent) - 1 <= Len(out)
    /\ SubSeq(out, i, i + Len(ent) - 1) = ent

\* the text generateHTML inserts for a section
InsertedText(s) ==
  IF s.type \in {"h1", "h2", "h3", "h4", "paragraph", "quote"} THEN s.content
  ELSE IF s.type \in {"bullet-list", "numbered-list"} THEN Concat(s.items)
  ELSE <<>>

\* the text values generateHTML inserts, in the order of the document: the
\* title (twice), the source URL, the text of each section (a line break
\* between two sections), the footer text
InsertedTexts(c, o) ==
  c.title \o c.title \o c.metadata.url
  \o join([n \in 1..Len(c.sections) |-> InsertedText(c.sections[n])], <<"\n">>)
  \o (IF o.footerText = Undefined THEN <<>> ELSE o.footerText)

\* C8: in the output of generateHTML none of the characters < > " ' of a
\* text value of the document or the options appears, an & appears only at
\* the start of one of the five entities, and unescaping the entities gives
\* back the inserted texts exactly.
C8_EscapedAndRecoverable ==
  html # <<>> =>
    /\ \A i \in 1..Len(html) :
         /\ html[i] \notin {"<", ">", "\"", "'"}
         /\ html[i] = "&" => EntityAt(html, i)
    /\ Unescape(UserChars(html)) = InsertedTexts(content, options)

\* a rendering of a title, a paragraph, a quote, list items and a footer that
\* hold all five characters, and of a text that spells an entity
C8_Witness ==
  /\ html # <<>>
  /\ "<" \in Range(content.title) /\ ">" \in Range(content.title)
  /\ "&" \in Range(content.metadata.url)
  /\ options.footerText # Undefined /\ "'" \in Range(options.footerText)
  /\ \E n \in 1..Len(content.sections) :
       /\ content.sections[n].type = "paragraph"
       /\ content.sections[n].content = <<"&", "l", "t", ";">>
  /\ \E n \in 1..Len(content.sections) :
       /\ content.sections[n].type = "quote"
       /\ "\"" \in Range(content.sections[n].content)

\* C9: a section whose type is not a recognized variant renders to the empty
\* string in each of the three renderers, no renderer raises an error, and
\* the rest of the document is rendered.
C9_UnknownTypeRendersEmpty ==
  /\ error = ""
  /\ \A n \in 1..Len(content.sections) :
       content.sections[n].type \notin SectionTypes =>
         /\ markdown # <<>> => renderSectionAsMarkdown(content.sections[n]) = <<>>
         /\ plain # <<>> => renderSectionAsPlainText(content.sections[n]) = <<>>
         /\ html # <<>> => renderSection(content.sections[n]) = <<>>

----------------------------------------------------------------------------
(* exportContent                                                           *)
(* The call runs to its first await (the fetch of scrapeContent). When the *)
(* fetch resolves, scrapeContent parses, cleans and extracts and returns;  *)
(* in a later job exportContent picks the format, renders and starts the   *)
(* write or the PDF, whose awaits settle one at a time.                    *)

\* the output paths of the calls
Paths ==
  {"./output.md", "./output.markdown", "./notes.txt", "./report.pdf",
   "./REPORT.PDF", "./page.html", "./output"}

\* path.extname on these paths
extname(path) ==
  IF path = "./output.md" THEN ".md"
  ELSE IF path = "./output.markdown" THEN ".markdown"
  ELSE IF path = "./notes.txt" THEN ".txt"
  ELSE IF path = "./report.pdf" THEN ".pdf"
  ELSE IF path = "./REPORT.PDF" THEN ".PDF"
  ELSE IF path = "./page.html" THEN ".html"
  ELSE ""

\* String.prototype.toLowerCase on these extensions
toLowerCase(e) == IF e = ".PDF" THEN ".pdf" ELSE e

detectFormat(path) ==
  LET ext == toLowerCase(extname(path))
  IN  IF ext \in {".md", ".markdown"} THEN "markdown"
      ELSE IF ext = ".txt" THEN "text"
      ELSE IF ext = ".pdf" THEN "pdf"
      ELSE "markdown"

\* the switch of exportContent with a default branch that writes markdown
switchFormat_DefaultMarkdown(format) ==
  IF format \in {"text", "txt"} THEN "text"
  ELSE IF format = "pdf" THEN "pdf"
  ELSE "markdown"

\* the branch the switch of exportContent takes
switchFormat(format) ==
  IF format \in {"markdown", "md"} THEN "markdown"
  ELSE IF format \in {"text", "txt"} THEN "text"
  ELSE IF format = "pdf" THEN "pdf"
  ELSE "default"

UnsupportedFormat(format) ==
  "Unsupported format: " \o format \o ". Use 'markdown', 'text', or 'pdf'."

\* const format = options.format || detectFormat(outputPath)
ChosenFormat(o, path) ==
  IF o.format # "" THEN o.format ELSE detectFormat(path)

\* the content object scrapeContent returns for the cleaned tree
scrapeContent(cleaned, url, t) ==
  [title    |-> extractTitle(cleaned),
   metadata |-> extractMetadata(cleaned, url, t),
   sections |-> extractSections(cleaned)]

\* the values of options.format of the calls: absent (''), every format of
\* the switch, page formats, and formats the switch does not know
Formats ==
  {"", "markdown", "md", "text", "txt", "pdf", "A4", "Letter", "html", "PDF"}

\* the elements of the pages exported: a title heading, a paragraph and a
\* navigation block that the cleaning removes
ExportKinds == {Elem("h1", <<"T">>), Elem("p", abc), Elem("nav", <<>>)}

\* the stages scrapeContent runs once the fetch has resolved: parseHTML,
\* removeUnwantedElements, then extractTitle, extractMetadata, extractSections
ScrapeStages == <<"parse", "sanitize", "extract">>

\* the stages a branch of the switch runs: a generator, then writeTextFile
\* or createPDFFromHTML; the default branch throws before either
ExportStages(branch) ==
  IF branch \in {"markdown", "text"} THEN <<"render", "write">>
  ELSE IF branch = "pdf" THEN <<"render", "rasterize">>
  ELSE <<>>

\* the page format createPDFFromHTML hands to page.pdf
PageFormat(o) == IF o.format # "" THEN o.format ELSE "A4"

InitExport ==
  /\ doc \in DocsUpTo(ExportKinds, MaxPageNodes)
  /\ pc = "export"
  /\ scope = 0 /\ elems = <<>> /\ sections = <<>> /\ seen = {}
  /\ content = Null
  /\ options \in {[format |-> f, footerText |-> t] :
                    f \in Formats, t \in {Undefined, <<"A", "'", "s">>}}
  /\ outputPath \in Paths
  /\ markdown = <<>> /\ plain = <<>> /\ html = <<>>
  /\ writes = <<>> /\ pdfCalls = <<>> /\ error = "" /\ now = 0
  /\ stages = <<"fetch">> /\ IdleB

\* axios.get rejects: the error leaves scrapeContent and exportContent
FetchRejects ==
  /\ pc = "export"
  /\ pc' = "failed"
  /\ error' = "FetchError"
  /\ UNCHANGED <<doc, scope, elems, sections, seen, content, options,
                 outputPath, markdown, plain, html, writes, pdfCalls, now,
                 stages, callB, browser>>

\* axios.get resolves: the rest of scrapeContent, which stamps scrapedAt and
\* returns the content object
FetchResolves ==
  /\ pc = "export"
  /\ LET cleaned == removeUnwantedElements(doc)
         c       == scrapeContent(cleaned, Url, now)
     IN  /\ doc' = cleaned
         /\ content' = c
         /\ scope' = mainContent(cleaned)
         /\ elems' = <<>>
         /\ sections' = c.sections
         /\ seen' = {SectionKey(c.sections[n]) : n \in 1..Len(c.sections)}
  /\ pc' = "export.scraped"
  /\ stages' = stages \o ScrapeStages
  /\ UNCHANGED <<options, outputPath, markdown, plain, html, writes, pdfCalls,
                 error, now, callB, browser>>

\* await scrapeContent(url) resolves in exportContent: the switch on the
\* format, a generator (which stamps the date again), and the call of
\* writeTextFile or createPDFFromHTML, or the throw of the default branch
ScrapeResolves ==
  /\ pc = "export.scraped"
  /\ LET format == ChosenFormat(options, outputPath)
         branch == switchFormat(format)
     IN  /\ markdown' = IF branch = "markdown"
                        THEN generateMarkdown(content, options, now) ELSE markdown
         /\ plain' = IF branch = "text"
                     THEN generatePlainText(content, options, now) ELSE plain
         /\ html' = IF branch = "pdf"
                    THEN generateHTML(content, [footerText |-> options.footerText], now)
                    ELSE html
         /\ writes' = IF branch \in {"markdown", "text"}
                      THEN Append(writes, [path |-> outputPath, format |-> branch])
                      ELSE writes
         /\ pdfCalls' = IF branch = "pdf"
                        THEN Append(pdfCalls,
                                    [path |-> outputPath, format |-> PageFormat(options)])
                        ELSE pdfCalls
         /\ error' = IF branch = "default" THEN UnsupportedFormat(format) ELSE error
         /\ pc' = IF branch = "default" THEN "failed"
                  ELSE IF branch = "pdf" THEN "launch" ELSE "writing"
         /\ stages' = stages \o ExportStages(branch)
  /\ UNCHANGED <<doc, scope, elems, sections, seen, content, options,
                 outputPath, now, callB, browser>>

\* writeFile resolves: the log line and return content
WriteResolves ==
  /\ pc = "writing"
  /\ pc' = "done"
  /\ UNCHANGED <<doc, scope, elems, sections, seen, content, options,
                 outputPath, markdown, plain, html, writes, pdfCalls, error,
                 now, stages, callB, browser>>

\* writeFile rejects
WriteRejects ==
  /\ pc = "writing"
  /\ pc' = "failed"
  /\ error' = "WriteError"
  /\ UNCHANGED <<doc, scope, elems, sections, seen, content, options,
                 outputPath, markdown, plain, html, writes, pdfCalls, now,
                 stages, callB, browser>>

\* the positions at which a call waits for a promise to settle
Awaiting ==
  {"export", "generate", "export.scraped", "generate.scraped", "writing",
   "launch", "newPage", "setContent", "page.pdf", "close"}

\* a day passes between two jobs: while a call waits at an await, or
\* between two calls of a renderer
Tick ==
  /\ pc \in Awaiting \cup {"render"}
  /\ now < MaxDay
  /\ now' = now + 1
  /\ UNCHANGED <<doc, pc, scope, elems, sections, seen, content, options,
                 outputPath, markdown, plain, html, writes, pdfCalls, error,
                 stages, callB, browser>>

----------------------------------------------------------------------------
(* createPDFFromHTML, one await at a time                                  *)

\* a call createPDFFromHTML(html, outputPath, options), at the await of
\* puppeteer.launch(); html is what generateHTML returned for a document of
\* at most one section
InitPdf ==
  /\ doc = <<Body>> /\ scope = 0 /\ elems = <<>> /\ sections = <<>> /\ seen = {}
  /\ pc = "launch"
  /\ content \in {c \in ContentDocs : Len(c.sections) <= 1 /\ ~Throws(c.sections)}
  /\ options \in {[format |-> f, footerText |-> t] :
                    f \in {"", "A4", "Letter"}, t \in Footers}
  /\ outputPath = "./report.pdf"
  /\ markdown = <<>> /\ plain = <<>>
  /\ html = generateHTML(content, [footerText |-> options.footerText], 0)
  /\ writes = <<>>
  /\ pdfCalls = <<[path |-> outputPath, format |-> PageFormat(options)]>>
  /\ error = "" /\ now = 0
  /\ stages = <<"fetch">> \o ScrapeStages \o <<"render", "rasterize">>
  /\ IdleB

\* const browser = await puppeteer.launch() resolves
LaunchResolves ==
  /\ pc = "launch"
  /\ pc' = "newPage"
  /\ browser' = "open"
  /\ UNCHANGED <<doc, scope, elems, sections, seen, content, options,
                 outputPath, markdown, plain, html, writes, pdfCalls, error,
                 now, stages, callB>>

\* puppeteer.launch() rejects: there is no browser
LaunchRejects ==
  /\ pc = "launch"
  /\ pc' = "failed"
  /\ error' = "LaunchError"
  /\ UNCHANGED <<doc, scope, elems, sections, seen, content, options,
                 outputPath, markdown, plain, html, writes, pdfCalls, now,
                 stages, callB, browser>>

\* const page = await browser.newPage() resolves
NewPageResolves ==
  /\ pc = "newPage"
  /\ pc' = "setContent"
  /\ UNCHANGED <<doc, scope, elems, sections, seen, content, options,
                 outputPath, markdown, plain, html, writes, pdfCalls, error,
                 now, stages, callB, browser>>

\* browser.newPage() rejects: the error leaves createPDFFromHTML
NewPageRejects ==
  /\ pc = "newPage"
  /\ pc' = "failed"
  /\ error' = "NewPageError"
  /\ UNCHANGED <<doc, scope, elems, sections, seen, content, options,
                 outputPath, markdown, plain, html, writes, pdfCalls, now,
                 stages, callB, browser>>

\* await page.setContent(html, ...) resolves
SetContentResolves ==
  /\ pc = "setContent"
  /\ pc' = "page.pdf"
  /\ UNCHANGED <<doc, scope, elems, sections, seen, content, options,
                 outputPath, markdown, plain, html, writes, pdfCalls, error,
                 now, stages, callB, browser>>

\* page.setContent rejects: the error leaves createPDFFromHTML
SetContentRejects ==
  /\ pc = "setContent"
  /\ pc' = "failed"
  /\ error' = "SetContentError"
  /\ UNCHANGED <<doc, scope, elems, sections, seen, content, options,
                 outputPath, markdown, plain, html, writes, pdfCalls, now,
                 stages, callB, browser>>

\* await page.pdf({path, format, ...}) resolves: the file is written
PagePdfResolves ==
  /\ pc = "page.pdf"
  /\ pc' = "close"
  /\ writes' = Append(writes, [path |-> outputPath, format |-> "pdf"])
  /\ UNCHANGED <<doc, scope, elems, sections, seen, content, options,
                 outputPath, markdown, plain, html, pdfCalls, error, now,
                 stages, callB, browser>>

\* page.pdf rejects and the caller writes markdown in its place
PagePdfRejects_FallbackMarkdown ==
  /\ pc = "page.pdf"
  /\ pc' = "failed"
  /\ error' = "PagePdfError"
  /\ markdown' = generateMarkdown(content, options, now)
  /\ writes' = Append(writes, [path |-> outputPath, format |-> "markdown"])
  /\ stages' = stages \o <<"render", "write">>
  /\ UNCHANGED <<doc, scope, elems, sections, seen, content, options,
                 outputPath, plain, html, pdfCalls, now, callB, browser>>

\* page.pdf rejects: the error leaves createPDFFromHTML
PagePdfRejects ==
  /\ pc = "page.pdf"
  /\ pc' = "failed"
  /\ error' = "PagePdfError"
  /\ UNCHANGED <<doc, scope, elems, sections, seen, content, options,
                 outputPath, markdown, plain, html, writes, pdfCalls, now,
                 stages, callB, browser>>

\* await browser.close() resolves: createPDFFromHTML returns, and a caller
\* awaiting it logs and returns content
CloseResolves ==
  /\ pc = "close"
  /\ pc' = "done"
  /\ browser' = "closed"
  /\ UNCHANGED <<doc, scope, elems, sections, seen, content, options,
                 outputPath, markdown, plain, html, writes, pdfCalls, error,
                 now, stages, callB>>

\* browser.close() rejects: the error leaves createPDFFromHTML with the file
\* written and the browser still there
CloseRejects ==
  /\ pc = "close"
  /\ pc' = "failed"
  /\ error' = "CloseError"
  /\ UNCHANGED <<doc, scope, elems, sections, seen, content, options,
                 outputPath, markdown, plain, html, writes, pdfCalls, now,
                 stages, callB, browser>>

NextPdf ==
  \/ LaunchResolves \/ LaunchRejects
  \/ NewPageResolves \/ NewPageRejects
  \/ SetContentResolves \/ SetContentRejects
  \/ PagePdfResolves \/ PagePdfRejects
  \/ CloseResolves \/ CloseRejects

\* a call of createPDFFromHTML on its own, the clock running
NextPdfCall == NextPdf \/ Tick

\* every await settles
SpecPdf == InitPdf /\ [][NextPdfCall]_vars /\ WF_vars(NextPdf)

NextExport ==
  \/ FetchRejects \/ FetchResolves \/ ScrapeResolves
  \/ WriteResolves \/ WriteRejects
  \/ NextPdf \/ Tick

SpecExport == InitExport /\ [][NextExport]_vars

----------------------------------------------------------------------------
(* generatePDF, and both entry points of the pipeline                      *)

\* a call generatePDF(url, outputPath, options), at the await of its fetch
InitGeneratePDF ==
  /\ doc \in DocsUpTo(ExportKinds, MaxPageNodes)
  /\ pc = "generate"
  /\ scope = 0 /\ elems = <<>> /\ sections = <<>> /\ seen = {}
  /\ content = Null
  /\ options \in {[format |-> f, footerText |-> t] :
                    f \in {"", "Letter"}, t \in {Undefined, <<"A", "'", "s">>}}
  /\ outputPath \in {"./report.pdf", "./output"}
  /\ markdown = <<>> /\ plain = <<>> /\ html = <<>>
  /\ writes = <<>> /\ pdfCalls = <<>> /\ error = "" /\ now = 0
  /\ stages = <<"fetch">> /\ IdleB

\* axios.get rejects: the error leaves scrapeContent and generatePDF
GenerateFetchRejects ==
  /\ pc = "generate"
  /\ pc' = "failed"
  /\ error' = "FetchError"
  /\ UNCHANGED <<doc, scope, elems, sections, seen, content, options,
                 outputPath, markdown, plain, html, writes, pdfCalls, now,
                 stages, callB, browser>>

\* axios.get resolves: the rest of scrapeContent, which stamps scrapedAt and
\* returns the content object
GenerateFetchResolves ==
  /\ pc = "generate"
  /\ LET cleaned == removeUnwantedElements(doc)
         c       == scrapeContent(cleaned, Url, now)
     IN  /\ doc' = cleaned
         /\ content' = c
         /\ scope' = mainContent(cleaned)
         /\ sections' = c.sections
         /\ seen' = {SectionKey(c.sections[n]) : n \in 1..Len(c.sections)}
  /\ pc' = "generate.scraped"
  /\ stages' = stages \o ScrapeStages
  /\ UNCHANGED <<elems, options, outputPath, markdown, plain, html, writes,
                 pdfCalls, error, now, callB, browser>>

\* await scrapeContent(url) resolves in generatePDF: generateHTML (which
\* stamps the date again) and the call of createPDFFromHTML
GenerateScrapeResolves ==
  /\ pc = "generate.scraped"
  /\ html' = generateHTML(content, [footerText |-> options.footerText], now)
  /\ pdfCalls' = Append(pdfCalls,
                        [path |-> outputPath, format |-> PageFormat(options)])
  /\ stages' = stages \o <<"render", "rasterize">>
  /\ pc' = "launch"
  /\ UNCHANGED <<doc, scope, elems, sections, seen, content, options,
                 outputPath, markdown, plain, writes, error, now, callB,
                 browser>>

NextPipeline ==
  \/ NextExport
  \/ GenerateFetchRejects \/ GenerateFetchResolves \/ GenerateScrapeResolves

SpecPipeline == (InitExport \/ InitGeneratePDF) /\ [][NextPipeline]_vars

----------------------------------------------------------------------------
(* Properties of exportContent                                             *)

\* C10: a call of exportContent with a format that is not one of
\* markdown/md, text/txt or pdf never calls writeTextFile or
\* createPDFFromHTML, writes no file and never completes; once the switch
\* has run the call has failed with the unsupported-format error.
C10_UnsupportedFormatWritesNothing ==
  options.format \notin {"", "markdown", "md", "text", "txt", "pdf"} =>
    /\ writes = <<>> /\ pdfCalls = <<>>
    /\ markdown = <<>> /\ plain = <<>> /\ html = <<>>
    /\ pc \in {"export", "export.scraped", "failed"}
    /\ (pc = "failed") = (error # "")
    /\ error \in {"", "FetchError",
                  "Unsupported format: " \o options.format
                    \o ". Use 'markdown', 'text', or 'pdf'."}
    /\ error = "FetchError" => content = Null
    /\ (pc = "failed" /\ error # "FetchError") => content # Null

\* a call with format 'html' and a .pdf path has scraped a page with
\* sections and failed on the format a day later
C10_Witness ==
  /\ options.format = "html" /\ outputPath = "./report.pdf"
  /\ pc = "failed" /\ content # Null
  /\ Len(content.sections) > 0
  /\ error # "FetchError"
  /\ now > 0

IsPrefix(p, q) == Len(p) <= Len(q) /\ SubSeq(q, 1, Len(p)) = p

\* the errors createPDFFromHTML fails with, one for each of its awaits
RasterizationErrors ==
  {"LaunchError", "NewPageError", "SetContentError", "PagePdfError", "CloseError"}

\* the calls of writeFile, and the files page.pdf has written
TextWrites == SelectSeq(writes, LAMBDA w : w.format # "pdf")
PdfWrites == SelectSeq(writes, LAMBDA w : w.format = "pdf")

\* C11: in exportContent and generatePDF the stages start in the order fetch,
\* parse, sanitize, extract, render, write or rasterize, each at most once
\* (no retry); a write or a rasterization is started only after all the
\* stages before it, and a PDF is written only by a rasterization that has
\* started; a failed fetch leaves the call failed with that error, nothing
\* parsed, rendered, written or rasterized; a failed rasterization leaves
\* the call failed with that error and no markdown or text written in place
\* of the PDF.
C11_StagesInOrder ==
  /\ \/ IsPrefix(stages, <<"fetch">> \o ScrapeStages \o <<"render", "write">>)
     \/ IsPrefix(stages, <<"fetch">> \o ScrapeStages \o <<"render", "rasterize">>)
  /\ Len(TextWrites) = Count(stages, "write")
  /\ Len(pdfCalls) = Count(stages, "rasterize")
  /\ Len(TextWrites) + Len(pdfCalls) <= 1
  /\ Len(PdfWrites) <= Len(pdfCalls)
  /\ (markdown # <<>> \/ plain # <<>> \/ html # <<>>) => Count(stages, "render") = 1
  /\ content # Null => Count(stages, "extract") = 1
  /\ error = "FetchError" =>
       /\ pc = "failed" /\ stages = <<"fetch">> /\ content = Null
       /\ markdown = <<>> /\ plain = <<>> /\ html = <<>>
       /\ writes = <<>> /\ pdfCalls = <<>>
  /\ error \in RasterizationErrors =>
       /\ pc = "failed" /\ stages[Len(stages)] = "rasterize"
       /\ TextWrites = <<>> /\ markdown = <<>> /\ plain = <<>>
  /\ (pc = "failed" /\ content # Null /\ pdfCalls # <<>>)
       => error \in RasterizationErrors

\* a call of generatePDF whose rasterization failed at page.pdf after every
\* stage ran, the page rendered a day after it was scraped
C11_Witness ==
  /\ error = "PagePdfError"
  /\ options.format = "Letter"
  /\ stages = <<"fetch", "parse", "sanitize", "extract", "render", "rasterize">>
  /\ Len(content.sections) > 0
  /\ now > 0

\* C12: a call of exportContent with a path ending in .pdf and options.format
\* 'A4' or 'Letter' reaches createPDFFromHTML once the page is scraped and
\* the switch has run, with options.format as the page format, and does not
\* fail on the format.
C12_PageFormatReachesPdf ==
  (/\ outputPath = "./report.pdf"
   /\ options.format \in {"A4", "Letter"}
   /\ content # Null /\ pc # "export.scraped")
  =>
    /\ Len(pdfCalls) = 1
    /\ pdfCalls[1].format = options.format
    /\ error \in {""} \cup RasterizationErrors

----------------------------------------------------------------------------
(* scrapeContent after the fetch, one stage at a time, and the renderers   *)
(* on what it returns                                                      *)

xyz == <<"x", "y", "z">>

\* the elements of the pages scraped: an empty top-level heading and one
\* with text and whitespace around it, two title elements, a paragraph, form
\* controls (alone or inside the paragraph), a form, a custom element named
\* constructor, and a container
ScrapeKinds ==
  {Elem("h1", <<>>), Elem("h1", <<" ", "T", "\n">>),
   Elem("title", abc), Elem("title", xyz),
   Elem("p", abc),
   Elem("select", <<"x">>),
   [Elem("input", <<>>) EXCEPT !.type = "hidden"],
   Elem("form", <<>>),
   Elem("constructor", <<>>),
   Elem("div", <<>>)}

\* the tree parseHTML returned
InitScrape ==
  /\ doc \in DocsUpTo(ScrapeKinds, MaxNodes)
  /\ pc = "parsed"
  /\ scope = 0 /\ elems = <<>> /\ sections = <<>> /\ seen = {}
  /\ content = Null
  /\ options = [format |-> "", footerText |-> Undefined]
  /\ outputPath = ""
  /\ markdown = <<>> /\ plain = <<>> /\ html = <<>>
  /\ writes = <<>> /\ pdfCalls = <<>> /\ error = "" /\ now = 0
  /\ stages = <<"fetch", "parse">> /\ IdleB

\* const cleaned$ = removeUnwantedElements($): the tree is changed in place
Sanitize ==
  /\ pc = "parsed"
  /\ doc' = removeUnwantedElements(doc)
  /\ stages' = Append(stages, "sanitize")
  /\ pc' = "cleaned"
  /\ UNCHANGED <<scope, elems, sections, seen, content, options, outputPath,
                 markdown, plain, html, writes, pdfCalls, error, now, callB,
                 browser>>

\* return {title, metadata, sections}; the caller goes on to render it
ScrapeReturn ==
  /\ pc = "cleaned"
  /\ content' = scrapeContent(doc, Url, now)
  /\ scope' = mainContent(doc)
  /\ sections' = extractSections(doc)
  /\ seen' = {SectionKey(extractSections(doc)[n]) :
                n \in 1..Len(extractSections(doc))}
  /\ stages' = Append(stages, "extract")
  /\ pc' = "render"
  /\ UNCHANGED <<doc, elems, options, outputPath, markdown, plain, html,
                 writes, pdfCalls, error, now, callB, browser>>

NextScrape == Sanitize \/ ScrapeReturn \/ NextRender

SpecScrape == InitScrape /\ [][NextScrape]_vars

----------------------------------------------------------------------------
(* Properties of scrapeContent                                             *)

\* the title the claim describes: the trimmed text of the first h1 when it
\* is not empty, else the trimmed text of the title element, else ''
TitleByFallback(d) ==
  LET h1s    == {i \in 1..Len(d) : d[i].tag = "h1"}
      titles == {i \in 1..Len(d) : d[i].tag = "title"}
  IN  IF h1s # {} /\ trim(text(d, First(h1s))) # <<>>
        THEN trim(text(d, First(h1s)))
      ELSE IF titles # {} THEN trim(text(d, First(titles)))
      ELSE <<>>

\* C13: the title scrapeContent returns is the trimmed text of the first h1
\* of the whole (cleaned) document when that is not empty, else the trimmed
\* text of the title element, else the empty string.
C13_TitleFallback ==
  content # Null => content.title = TitleByFallback(doc)

\* the tree holds no heading, paragraph, list, quote or title element
Sparse(d) ==
  \A i \in 1..Len(d) :
    d[i].tag \notin HeadingTags \cup {"p", "ul", "ol", "li", "blockquote", "title"}

\* C16: for a tree with no heading, paragraph, list, quote or title element
\* the extraction raises no error and returns zero sections and an empty
\* title, and each renderer returns a complete document with the title line
\* or element and the metadata block.
C16_SparseMarkup ==
  (pc = "render" /\ Sparse(doc)) =>
    /\ error = ""
    /\ content.sections = <<>> /\ content.title = <<>>
    /\ markdown # <<>> =>
         StartsWith(markdown, <<"# ", "\n\n", "**Source:** ">> \o Url)
    /\ plain # <<>> =>
         StartsWith(plain, <<"\n", "\n\n", "Source: ">> \o Url)
    /\ html # <<>> =>
         /\ Count(html, "</title>\n    <style>") = 1
         /\ Count(html, "</h1>\n    <div class=\"metadata\">\n      <p>Quelle: ") = 1
         /\ html[Len(html)] = "\n  </body>\n  </html>\n"

\* element i of tree d, with its subtree, is in tree e as it was
LeftIn(d, i, e) ==
  LET n == SubtreeEnd(d, i, i) - i
  IN  \E j \in 1..Len(e) :
        /\ j + n <= Len(e)
        /\ \A k \in 0..n :
             /\ e[j + k].tag = d[i + k].tag /\ e[j + k].text = d[i + k].text
             /\ e[j + k].depth - e[j].depth = d[i + k].depth - d[i].depth

\* C17: removeUnwantedElements leaves in the tree every input, select or
\* textarea element that stands inside a paragraph, and the paragraph around
\* it (for the paragraphs that no removed block contains).
C17_ControlsInTextAreKept ==
  [][(pc = "parsed" /\ pc' = "cleaned") =>
       \A i \in 1..Len(doc) :
         (/\ doc[i].tag = "p"
          /\ \A j \in Ancestors(doc, i) : ~Unwanted(doc[j]))
         => LeftIn(doc, i, doc')]_vars

----------------------------------------------------------------------------
(* The renderers called again and again while the wall clock advances      *)

\* a ContentDocument extracted on day 0, with at most one section
InitClock ==
  /\ InitRender
  /\ Len(content.sections) <= 1

\* one more call generateMarkdown(content, options)
GenerateMarkdownAgain ==
  /\ pc = "render" /\ markdown # <<>>
  /\ markdown' = generateMarkdown(content, options, now)
  /\ UNCHANGED <<doc, pc, scope, elems, sections, seen, content, options,
                 outputPath, plain, html, writes, pdfCalls, error, now,
                 stages, callB, browser>>

\* one more call generatePlainText(content, options)
GeneratePlainTextAgain ==
  /\ pc = "render" /\ plain # <<>>
  /\ plain' = generatePlainText(content, options, now)
  /\ UNCHANGED <<doc, pc, scope, elems, sections, seen, content, options,
                 outputPath, markdown, html, writes, pdfCalls, error, now,
                 stages, callB, browser>>

\* one more call generateHTML(content, options)
GenerateHTMLAgain ==
  /\ pc = "render" /\ html # <<>>
  /\ html' = generateHTML(content, options, now)
  /\ UNCHANGED <<doc, pc, scope, elems, sections, seen, content, options,
                 outputPath, markdown, plain, writes, pdfCalls, error, now,
                 stages, callB, browser>>

NextClock ==
  \/ NextRender \/ Tick
  \/ GenerateMarkdownAgain \/ GeneratePlainTextAgain \/ GenerateHTMLAgain

SpecClock == InitClock /\ [][NextClock]_vars

\* C14: for one ContentDocument and one options value, a renderer called
\* again, at whatever wall-clock time, returns the string it returned before.
C14_RendersReproducible ==
  [][/\ (markdown # <<>> /\ markdown' # <<>>) => markdown' = markdown
     /\ (plain # <<>> /\ plain' # <<>>) => plain' = plain
     /\ (html # <<>> /\ html' # <<>>) => html' = html]_vars

----------------------------------------------------------------------------
(* extractSections on lists with a comma in an item, and on a custom       *)
(* element whose name is a member every object inherits                    *)

\* a list, items "a", "b" and "a,b", and an element named constructor
KeyKinds ==
  {Elem("ul", <<>>),
   Elem("li", <<"a">>), Elem("li", <<"b">>), Elem("li", <<"a", ",", "b">>),
   Elem("constructor", <<>>)}

\* trees of one element more than those of Spec: two lists with three items
InitKeys == InitExtract(DocsUpTo(KeyKinds, MaxNodes + 1))

SpecKeys == InitKeys /\ [][Next]_vars

\* the Section invariant: a Heading or a Quote has text that is not empty
\* after trimming, a Paragraph text of at least 3 characters, a List at least
\* one item and no item empty after trimming
SectionInvariant(s) ==
  IF s.type \in HeadingTags \cup {"quote"}
    THEN "content" \in DOMAIN s /\ trim(s.content) # <<>>
  ELSE IF s.type = "paragraph"
    THEN "content" \in DOMAIN s /\ Len(trim(s.content)) >= 3
  ELSE IF s.type \in {"bullet-list", "numbered-list"}
    THEN /\ "items" \in DOMAIN s /\ Len(s.items) >= 1
         /\ \A n \in 1..Len(s.items) : trim(s.items[n]) # <<>>
  ELSE FALSE

\* C15: after every step of the traversal, every section of the sequence
\* satisfies the Section invariant.
C15_SectionInvariant ==
  \A k \in 1..Len(sections) : SectionInvariant(sections[k])

\* C20: a section the traversal extracts is missing from the returned
\* sequence only if a section of the same type and the same content (the same
\* text, or the same sequence of items) is in it: lists whose item sequences
\* differ are all retained.
C20_DiscardOnlyDuplicates ==
  pc = "returned" =>
    \A i \in InScope :
      (~Skipped(i) /\ extractSectionByType(doc, i, doc[i].tag) # Null) =>
        extractSectionByType(doc, i, doc[i].tag) \in Range(sections)

----------------------------------------------------------------------------
(* Two calls of extractSections, their callbacks interleaved in any order  *)

\* paragraphs of two different texts: each tree may repeat a paragraph, and
\* the two trees may hold the same paragraph
TwoCallKinds == {Elem("p", abc), Elem("p", xyz)}

\* const seen = new Set(): the new set holds nothing, whatever other sets
\* of the program hold
NewSet_Shared(others) == others

NewSet(others) == {}

InitTwoCalls ==
  /\ doc \in DocsUpTo(TwoCallKinds, MaxNodes)
  /\ pc = "ready"
  /\ scope = 0 /\ elems = <<>> /\ sections = <<>> /\ seen = {}
  /\ Idle
  /\ docB \in DocsUpTo(TwoCallKinds, MaxNodes)
  /\ pcB = "ready"
  /\ elemsB = <<>> /\ sectionsB = <<>> /\ seenB = {}
  /\ browser = "none"

\* the second call: mainContent, sections and seen of its own
ExtractStartB ==
  /\ pcB = "ready"
  /\ elemsB' = IF mainContent(docB) = 0 THEN <<>>
               ELSE Descendants(docB, mainContent(docB))
  /\ sectionsB' = <<>>
  /\ seenB' = NewSet(seen)
  /\ pcB' = "each"
  /\ UNCHANGED <<doc, pc, scope, elems, sections, seen, content, options,
                 outputPath, markdown, plain, html, writes, pdfCalls, error,
                 now, stages, docB, browser>>

\* the callback of the second call on its next element
ExtractEachB ==
  /\ pcB = "each" /\ elemsB # <<>>
  /\ LET r == Visit(docB, Head(elemsB), sectionsB, seenB)
     IN  sectionsB' = r[1] /\ seenB' = r[2]
  /\ elemsB' = Tail(elemsB)
  /\ UNCHANGED <<doc, pc, scope, elems, sections, seen, content, options,
                 outputPath, markdown, plain, html, writes, pdfCalls, error,
                 now, stages, docB, pcB, browser>>

\* return sections, in the second call
ExtractReturnB ==
  /\ pcB = "each" /\ elemsB = <<>>
  /\ pcB' = "returned"
  /\ UNCHANGED <<doc, pc, scope, elems, sections, seen, content, options,
                 outputPath, markdown, plain, html, writes, pdfCalls, error,
                 now, stages, docB, elemsB, sectionsB, seenB, browser>>

NextTwoCalls ==
  \/ Next
  \/ ExtractStartB \/ ExtractEachB \/ ExtractReturnB

SpecTwoCalls == InitTwoCalls /\ [][NextTwoCalls]_vars

\* the identity keys of a sequence of sections
Keys(secs) == {SectionKey(secs[n]) : n \in 1..Len(secs)}

\* C19: each of two interleaved calls starts with an empty seen-set, holds in
\* it the keys of its own sections only, and returns the sections it returns
\* when it runs alone, also when the other call has seen the same key.
C19_CallsIndependent ==
  /\ (pc = "each" /\ elems = Descendants(doc, scope)) => seen = {}
  /\ (pcB = "each" /\ elemsB = Descendants(docB, mainContent(docB))) => seenB = {}
  /\ seen = Keys(sections) /\ seenB = Keys(sectionsB)
  /\ pc = "returned" => sections = extractSections(doc)
  /\ pcB = "returned" => sectionsB = extractSections(docB)

\* two calls on different trees have both returned a paragraph that both
\* trees hold, the first of them with a second section
C19_Witness ==
  /\ pc = "returned" /\ pcB = "returned"
  /\ doc # docB
  /\ \E n \in 1..Len(sections) : \E k \in 1..Len(sectionsB) :
       sections[n] = sectionsB[k]
  /\ Len(sections) = 2 /\ Len(doc) > 3

----------------------------------------------------------------------------
(* Further properties of the traversal of extractSections                  *)

\* the callback on element i finds the key of its section in the seen-set
Discards(i) ==
  /\ ~Skipped(i)
  /\ extractSectionByType(doc, i, doc[i].tag) # Null
  /\ SectionKey(extractSectionByType(doc, i, doc[i].tag)) \in seen

\* C21: at every step of the traversal the seen-set is the set of the keys of
\* the sections emitted so far, these keys are pairwise distinct, and there
\* are as many sections as keys in the seen-set; a step that discards a
\* duplicate leaves the sequence and the seen-set as they were.
C21_SeenSetMatchesSections ==
  /\ [](/\ seen = Keys(sections)
        /\ \A a \in 1..Len(sections) : \A b \in 1..Len(sections) :
             a # b => SectionKey(sections[a]) # SectionKey(sections[b])
        /\ Len(sections) = Cardinality(seen))
  /\ [][(pc = "each" /\ elems # <<>> /\ Discards(Head(elems)))
          => (sections' = sections /\ seen' = seen)]_vars

\* the traversal has emitted two sections and discarded a duplicate since
C21_Witness ==
  /\ pc = "each"
  /\ Len(sections) = 2
  /\ \E i \in InScope :
       /\ \A n \in 1..Len(elems) : elems[n] > i
       /\ ~Skipped(i)
       /\ extractSectionByType(doc, i, doc[i].tag) = sections[1]
       /\ \E j \in Producers(sections[2]) : j < i

\* C23: when a p or a heading is nested inside a blockquote, the returned
\* sequence does not hold both the Quote section of the blockquote, which
\* contains the text of the nested element, and a Paragraph or Heading
\* section of the nested element.
C23_NestedTextEmittedOnce ==
  pc = "returned" =>
    \A b \in InScope : \A i \in InScope :
      (/\ doc[b].tag = "blockquote" /\ b \in Ancestors(doc, i)
       /\ doc[i].tag \in HeadingTags \cup {"p"}
       /\ ~Skipped(i)
       /\ extractSectionByType(doc, i, doc[i].tag) # Null)
      => ~(/\ extractQuote(doc, b) \in Range(sections)
           /\ extractSectionByType(doc, i, doc[i].tag) \in Range(sections))

----------------------------------------------------------------------------
(* Properties of createPDFFromHTML                                         *)

\* C22: a browser that createPDFFromHTML has launched is eventually closed,
\* on every path of the call.
C22_BrowserEventuallyClosed == (browser = "open") ~> (browser = "closed")

====
